---- MODULE Spec2Model ----
(***************************************************************************)
(* The Microsoft SQL Server backend (ibis/backends/mssql/__init__.py):     *)
(* transaction scopes (begin, _safe_raw_sql, raw_sql), table creation and  *)
(* overwrite (create_table), registration of in-memory tables, catalog     *)
(* switching (create_database, drop_database) and schema introspection     *)
(* (get_schema, _get_schema_using_query).                                  *)
(*                                                                         *)
(* The backend owns one driver connection, `con`.  The model keeps what    *)
(* the connection sees (work), what the server has made durable            *)
(* (durable), the connection's current catalog, and the record of the      *)
(* driver calls made during the current backend call (log).  A backend     *)
(* call runs as a sequence of steps; pc is the position inside it.         *)
(***************************************************************************)
EXTENDS Integers, Sequences, FiniteSets, TLC

VARIABLES
    con,      \* the driver connection: work, durable, catalog, log
    pc,       \* position of the running backend call ("idle" between calls)
    call,     \* the arguments of the running call
    pre,      \* the connection as it was when the running call started
    result    \* how the call ended: ok with a value, or the exception raised

vars == <<con, pc, call, pre, result>>

None == "None"

(* Bounds of the model *)
MaxBody == 2      \* statements a caller's with-body executes on the cursor
MaxCols == 3      \* metadata rows the driver returns to an introspection

(* ------------------------------------------------------------------ *)
(* The data of the model                                                *)
(* ------------------------------------------------------------------ *)

Rows == {"r1", "r2"}
FinalName == "t"
\* the one memtable whose rows are r1, an empty one, and one with a null-typed column
Memtables == {"m1", "m2", "m3"}
Exprs == {"e1"}
Catalogs == {"c1", "c2"}
SchemaNames == {"s1", "s2"}

(* ------------------------------------------------------------------ *)
(* Statements and driver events                                         *)
(* ------------------------------------------------------------------ *)

BaseStmt ==
    [op |-> "SELECT", tbl |-> None, src |-> None, rows |-> {}, qual |-> None,
     temp |-> FALSE, exists |-> FALSE, to |-> None]

Select(what) == [BaseStmt EXCEPT !.tbl = what]
CreateStmt(t, qual, temp) ==
    [BaseStmt EXCEPT !.op = "CREATE", !.tbl = t, !.qual = qual, !.temp = temp]
InsertSelect(t, src) == [BaseStmt EXCEPT !.op = "INSERT", !.tbl = t, !.src = src]
InsertValues(t, rows) == [BaseStmt EXCEPT !.op = "INSERT", !.tbl = t, !.rows = rows]
DropStmt(t, exists) == [BaseStmt EXCEPT !.op = "DROP", !.tbl = t, !.exists = exists]
RenameStmt(old, new) == [BaseStmt EXCEPT !.op = "RENAME", !.tbl = old, !.to = new]
UseStmt(c) == [BaseStmt EXCEPT !.op = "USE", !.tbl = c]
CreateSchemaStmt(s, force) ==
    [BaseStmt EXCEPT !.op = "CREATE SCHEMA", !.tbl = s, !.exists = force]
DropSchemaStmt(s, force) ==
    [BaseStmt EXCEPT !.op = "DROP SCHEMA", !.tbl = s, !.exists = force]

NoStmt == [BaseStmt EXCEPT !.op = "-"]

Ev(e, s, x) == [ev |-> e, stmt |-> s, err |-> x]

(* The rows a query expression or a registered memtable yields. *)
ExprData(e) == {"r2"}

SourceRows(s, tables) ==
    IF s.src = None THEN s.rows
    ELSE IF s.src \in Exprs THEN ExprData(s.src)
    ELSE tables[s.src]

(* ------------------------------------------------------------------ *)
(* The server behind the driver                                         *)
(* ------------------------------------------------------------------ *)

\* A statement the server rejects in the connection's present state.
Rejects(s, c) ==
    LET T == DOMAIN c.work.tables IN
    CASE s.op = "CREATE" -> s.tbl \in T
      [] s.op = "INSERT" ->
            \/ s.tbl \notin T
            \/ (s.src \in Memtables /\ s.src \notin T)
      [] s.op = "DROP" -> ~s.exists /\ s.tbl \notin T
      [] s.op = "RENAME" -> s.tbl \notin T \/ s.to \in T
      [] s.op = "USE" -> s.tbl \notin Catalogs
      [] s.op = "CREATE SCHEMA" ->
            ~s.exists /\ <<c.catalog, s.tbl>> \in c.work.schemas
      [] s.op = "DROP SCHEMA" ->
            ~s.exists /\ <<c.catalog, s.tbl>> \notin c.work.schemas
      [] OTHER -> FALSE

Without(tables, t) == [x \in (DOMAIN tables) \ {t} |-> tables[x]]

\* What an accepted statement does.  USE is not transactional: it moves the
\* connection, not the data.
Applied(s, c) ==
    LET tb == c.work.tables IN
    CASE s.op = "CREATE" ->
            [c EXCEPT !.work.tables = (s.tbl :> {}) @@ tb]
      [] s.op = "INSERT" ->
            [c EXCEPT !.work.tables =
                [tb EXCEPT ![s.tbl] = @ \cup SourceRows(s, tb)]]
      [] s.op = "DROP" ->
            [c EXCEPT !.work.tables = Without(tb, s.tbl)]
      [] s.op = "RENAME" ->
            [c EXCEPT !.work.tables = (s.to :> tb[s.tbl]) @@ Without(tb, s.tbl)]
      [] s.op = "USE" -> [c EXCEPT !.catalog = s.tbl]
      [] s.op = "CREATE SCHEMA" ->
            [c EXCEPT !.work.schemas = @ \cup {<<c.catalog, s.tbl>>}]
      [] s.op = "DROP SCHEMA" ->
            [c EXCEPT !.work.schemas = @ \ {<<c.catalog, s.tbl>>}]
      [] OTHER -> c

\* The ways cursor.execute(s) can end: "" is success, anything else the
\* exception the driver raises.
Outcomes(s, c) ==
    IF Rejects(s, c) THEN {"ProgrammingError"} ELSE {"", "OperationalError"}

Logged(c, e) == [c EXCEPT !.log = Append(@, e)]

Cursor(c) == Logged(c, Ev("cursor", NoStmt, ""))
Close(c) == Logged(c, Ev("close", NoStmt, ""))
Commit(c) == Logged([c EXCEPT !.durable = c.work], Ev("commit", NoStmt, ""))
Rollback(c) == Logged([c EXCEPT !.work = c.durable], Ev("rollback", NoStmt, ""))

Execute(c, s, x) ==
    Logged(IF x = "" THEN Applied(s, c) ELSE c, Ev("execute", s, x))

(* ------------------------------------------------------------------ *)
(* begin, _safe_raw_sql, raw_sql                                        *)
(* ------------------------------------------------------------------ *)

\* begin(): what the context manager does when its body is left, with the
\* exception the body raised ("" when it raised none).
BeginExitNoRollback(c, x) == Close(IF x = "" THEN Commit(c) ELSE c)
BeginExit(c, x) == Close(IF x = "" THEN Commit(c) ELSE Rollback(c))

\* raw_sql(): after cursor.execute.
RawSqlExit(c, x) == IF x = "" THEN Commit(c) ELSE Close(Rollback(c))

Ok(v) == [status |-> "ok", err |-> "", value |-> v]
Raised(x, v) == [status |-> "raised", err |-> x, value |-> v]
NoResult == [status |-> "none", err |-> "", value |-> <<>>]

Ended(x) == IF x = "" THEN Ok(<<>>) ELSE Raised(x, <<>>)

NoCall ==
    [op |-> None, name |-> None, obj |-> None, schema |-> None, database |-> None,
     temp |-> FALSE, overwrite |-> FALSE, catalog |-> None, force |-> FALSE,
     ret |-> None, n |-> 0, current |-> None, rows |-> <<>>]

Fresh(c) == [c EXCEPT !.log = <<>>]

EmptyTables == [x \in {} |-> {}]
EmptyDb == [tables |-> EmptyTables, schemas |-> {}]

Init ==
    /\ con = [work |-> EmptyDb, durable |-> EmptyDb, catalog |-> "c1", log |-> <<>>]
    /\ pc = "idle"
    /\ call = NoCall
    /\ pre = con
    /\ result = NoResult

\* What a caller's own code runs on the cursor it was handed.
UserStmts ==
    {Select("version"), CreateStmt(FinalName, None, FALSE),
     InsertValues(FinalName, {"r1"}), DropStmt(FinalName, FALSE)}

Start(op) ==
    /\ pc = "idle"
    /\ pre' = con
    /\ call' = [NoCall EXCEPT !.op = op]

\* with self.begin() as cur: <body>
Begin ==
    /\ Start("begin")
    /\ con' = Cursor(Fresh(con))
    /\ result' = NoResult
    /\ pc' = "body"

\* with self._safe_raw_sql(query) as cur: <body>
SafeRawSql ==
    /\ Start("_safe_raw_sql")
    /\ \E q \in UserStmts :
         LET c0 == Cursor(Fresh(con)) IN
         \E x \in Outcomes(q, c0) :
            LET c1 == Execute(c0, q, x) IN
            IF x = ""
            THEN /\ con' = c1
                 /\ result' = NoResult
                 /\ pc' = "body"
            ELSE /\ con' = BeginExit(c1, x)
                 /\ result' = Raised(x, <<>>)
                 /\ pc' = "done"

\* the body executes one more statement on the cursor
BodyExecute ==
    /\ pc = "body"
    /\ call.n < MaxBody
    /\ \E q \in UserStmts : \E x \in Outcomes(q, con) :
         LET c1 == Execute(con, q, x) IN
         IF x = ""
         THEN /\ con' = c1
              /\ pc' = "body"
              /\ call' = [call EXCEPT !.n = @ + 1]
              /\ result' = result
         ELSE /\ con' = BeginExit(c1, x)
              /\ pc' = "done"
              /\ call' = call
              /\ result' = Raised(x, <<>>)
    /\ pre' = pre

\* the body raises an exception of its own
BodyRaise ==
    /\ pc = "body"
    /\ con' = BeginExit(Logged(con, Ev("raise", NoStmt, "BodyError")), "BodyError")
    /\ result' = Raised("BodyError", <<>>)
    /\ pc' = "done"
    /\ UNCHANGED <<call, pre>>

\* the body runs to its end
BodyEnd ==
    /\ pc = "body"
    /\ con' = BeginExit(con, "")
    /\ result' = Ok(<<>>)
    /\ pc' = "done"
    /\ UNCHANGED <<call, pre>>

RawSql ==
    /\ Start("raw_sql")
    /\ \E q \in UserStmts :
         LET c0 == Cursor(Fresh(con)) IN
         \E x \in Outcomes(q, c0) :
            /\ con' = RawSqlExit(Execute(c0, q, x), x)
            /\ result' = Ended(x)
    /\ pc' = "done"

\* the caller takes the result; the next call starts a new record of driver calls
Return ==
    /\ pc = "done"
    /\ pc' = "idle"
    /\ call' = NoCall
    /\ result' = NoResult
    /\ con' = Fresh(con)
    /\ pre' = Fresh(con)

(* ------------------------------------------------------------------ *)
(* Steps shared by the calls below                                      *)
(* ------------------------------------------------------------------ *)

CurrentDatabase == "dbo"
StagingName == "stg"

\* cur.execute(q) inside an open scope: on success go on at `next`, on failure
\* leave the scope through begin()'s handler and end the call with the exception
ExecuteThen(q, next) ==
    \E x \in Outcomes(q, con) :
        LET c1 == Execute(con, q, x) IN
        IF x = ""
        THEN /\ con' = c1
             /\ pc' = next
             /\ result' = result
        ELSE /\ con' = BeginExit(c1, x)
             /\ pc' = "done"
             /\ result' = Raised(x, <<>>)

\* with self._safe_raw_sql(q) as cur: cur.fetchall()  (or: pass)
Query(c, q, x) == BeginExit(Execute(Cursor(c), q, x), x)

\* a whole scope of one statement: on success go on at `next` with result `r`
QueryThen(q, next, r) ==
    \E x \in Outcomes(q, Cursor(con)) :
        /\ con' = Query(con, q, x)
        /\ IF x = ""
           THEN pc' = next /\ result' = r
           ELSE pc' = "done" /\ result' = Raised(x, <<>>)

Goto(next) == pc' = next /\ result' = (IF next = "done" THEN Ok(<<>>) ELSE NoResult)

(* ------------------------------------------------------------------ *)
(* _register_in_memory_table                                            *)
(* ------------------------------------------------------------------ *)

MemData(m) == IF m = "m1" THEN {"r1"} ELSE {}
NullTyped(m) == m = "m3"

AlreadyRegisteredNever(m, c) == FALSE
AlreadyRegistered(m, c) == m \in DOMAIN c.work.tables

RegisterInMemoryTable ==
    /\ pc = "idle"
    /\ pre' = con
    /\ \E m \in Memtables :
         call' = [NoCall EXCEPT !.op = "_register_in_memory_table", !.obj = m,
                                !.ret = "done"]
    /\ con' = Fresh(con)
    /\ result' = NoResult
    /\ pc' = "reg_check"

RegCheck ==
    /\ pc = "reg_check"
    /\ IF NullTyped(call.obj)
       THEN pc' = "done" /\ result' = Raised("IbisTypeError", <<>>)
       ELSE pc' = "reg_catalog" /\ result' = NoResult
    /\ UNCHANGED <<con, call, pre>>

\* list_tables(): self.current_catalog
RegListCatalog ==
    /\ pc = "reg_catalog"
    /\ QueryThen(Select("db_name"), "reg_tables", NoResult)
    /\ UNCHANGED <<call, pre>>

\* list_tables(): information_schema.tables, then the membership test
RegListTables ==
    /\ pc = "reg_tables"
    /\ \E x \in Outcomes(Select("tables"), Cursor(con)) :
         /\ con' = Query(con, Select("tables"), x)
         /\ IF x # ""
            THEN pc' = "done" /\ result' = Raised(x, <<>>)
            ELSE IF AlreadyRegistered(call.obj, con)
                 THEN Goto(call.ret)
                 ELSE pc' = "reg_create" /\ result' = NoResult
    /\ UNCHANGED <<call, pre>>

RegCreate ==
    /\ pc = "reg_create"
    /\ \E x \in Outcomes(CreateStmt(call.obj, None, FALSE), Cursor(con)) :
         LET c1 == Execute(Cursor(con), CreateStmt(call.obj, None, FALSE), x) IN
         IF x = ""
         THEN con' = c1 /\ pc' = "reg_insert" /\ result' = NoResult
         ELSE con' = BeginExit(c1, x) /\ pc' = "done" /\ result' = Raised(x, <<>>)
    /\ UNCHANGED <<call, pre>>

RegInsert ==
    /\ pc = "reg_insert"
    /\ IF MemData(call.obj) # {}
       THEN ExecuteThen(InsertValues(call.obj, MemData(call.obj)), "reg_commit")
       ELSE con' = con /\ pc' = "reg_commit" /\ result' = NoResult
    /\ UNCHANGED <<call, pre>>

RegCommit ==
    /\ pc = "reg_commit"
    /\ con' = BeginExit(con, "")
    /\ Goto(call.ret)
    /\ UNCHANGED <<call, pre>>

(* ------------------------------------------------------------------ *)
(* create_table                                                         *)
(* ------------------------------------------------------------------ *)

Objs == {None} \cup Exprs \cup Memtables
Databases == {None, CurrentDatabase, "other"}

MalformedNever(c) == FALSE
Malformed(c) == c.obj = None /\ c.schema = None

OtherDatabaseNever(db, current) == FALSE
OtherDatabase(db, current) == db # None /\ db # current

TempNameSame(c) == c.name
TempName(c) == IF c.overwrite THEN StagingName ELSE c.name

\* else: database = None
Qualifier(c) == None

\* sge.Insert(this=table, ...): the table just created
InsertTargetFinal(c) == c.name
InsertTarget(c) == TempName(c)

\* cur.execute(...) on the cursor of the scope that created the table
OwnScopeExecute(c, q, x) == Execute(Cursor(Close(Commit(c))), q, x)
CtExecute(c, q, x) == Execute(c, q, x)

CtExecuteThen(q, next) ==
    \E x \in Outcomes(q, con) :
        LET c1 == CtExecute(con, q, x) IN
        IF x = ""
        THEN /\ con' = c1
             /\ pc' = next
             /\ result' = result
        ELSE /\ con' = BeginExit(c1, x)
             /\ pc' = "done"
             /\ result' = Raised(x, <<>>)

CreateTable ==
    /\ pc = "idle"
    /\ pre' = con
    /\ con' = Fresh(con)
    /\ \E obj \in Objs, schema \in {None, "given"}, db \in Databases,
          temp \in BOOLEAN, overwrite \in BOOLEAN :
         call' = [NoCall EXCEPT !.op = "create_table", !.name = FinalName,
                                !.obj = obj, !.schema = schema, !.database = db,
                                !.temp = temp, !.overwrite = overwrite,
                                !.ret = "ct_create"]
    /\ IF Malformed(call')
       THEN pc' = "done" /\ result' = Raised("ValueError", <<>>)
       ELSE pc' = "ct_database" /\ result' = NoResult

CtDatabase ==
    /\ pc = "ct_database"
    /\ pre' = pre
    /\ IF call.database = None
       THEN /\ con' = con
            /\ call' = call
            /\ pc' = "ct_hooks"
            /\ result' = NoResult
       ELSE \E x \in Outcomes(Select("schema_name"), Cursor(con)) :
            /\ con' = Query(con, Select("schema_name"), x)
            /\ IF x # ""
               THEN call' = call /\ pc' = "done" /\ result' = Raised(x, <<>>)
               ELSE IF OtherDatabase(call.database, CurrentDatabase)
                    THEN /\ call' = call
                         /\ pc' = "done"
                         /\ result' = Raised("UnsupportedOperationError", <<>>)
                    ELSE /\ call' = call
                         /\ pc' = "ct_hooks"
                         /\ result' = NoResult

\* self._run_pre_execute_hooks(table): registers the memtable the call made
CtHooks ==
    /\ pc = "ct_hooks"
    /\ pc' = IF call.obj \in Memtables THEN "reg_check" ELSE "ct_create"
    /\ UNCHANGED <<con, call, pre, result>>

CtCreate ==
    /\ pc = "ct_create"
    /\ LET q == CreateStmt(TempName(call), Qualifier(call), call.temp) IN
       \E x \in Outcomes(q, Cursor(con)) :
         LET c1 == Execute(Cursor(con), q, x) IN
         IF x = ""
         THEN con' = c1 /\ pc' = "ct_insert" /\ result' = NoResult
         ELSE con' = BeginExit(c1, x) /\ pc' = "done" /\ result' = Raised(x, <<>>)
    /\ UNCHANGED <<call, pre>>

CtInsert ==
    /\ pc = "ct_insert"
    /\ IF call.obj # None
       THEN CtExecuteThen(
                [InsertSelect(InsertTarget(call), call.obj) EXCEPT !.qual = Qualifier(call)],
                "ct_drop")
       ELSE con' = con /\ pc' = "ct_drop" /\ result' = NoResult
    /\ UNCHANGED <<call, pre>>

CtDrop ==
    /\ pc = "ct_drop"
    /\ IF call.overwrite
       THEN CtExecuteThen(
                [DropStmt(call.name, TRUE) EXCEPT !.qual = Qualifier(call)], "ct_rename")
       ELSE con' = con /\ pc' = "ct_commit" /\ result' = NoResult
    /\ UNCHANGED <<call, pre>>

CtRename ==
    /\ pc = "ct_rename"
    /\ CtExecuteThen(
            [RenameStmt(TempName(call), call.name) EXCEPT !.qual = Qualifier(call)],
            "ct_commit")
    /\ UNCHANGED <<call, pre>>

CtCommit ==
    /\ pc = "ct_commit"
    /\ con' = BeginExit(con, "")
    /\ pc' = "ct_cleanup"
    /\ result' = NoResult
    /\ UNCHANGED <<call, pre>>

\* if schema is None: drop the memtable the call registered
CtCleanup ==
    /\ pc = "ct_cleanup"
    /\ IF call.schema # None
       THEN con' = con /\ pc' = "done" /\ result' = Ok(<<>>)
       ELSE IF call.obj \in Memtables
            THEN QueryThen(DropStmt(call.obj, FALSE), "ct_table", NoResult)
            ELSE con' = con /\ pc' = "ct_table" /\ result' = NoResult
    /\ UNCHANGED <<call, pre>>

\* return self.table(name): reads the new table's columns
CtTable ==
    /\ pc = "ct_table"
    /\ \E x \in Outcomes(Select("db_name"), Cursor(con)) :
         LET c1 == Query(con, Select("db_name"), x) IN
         IF x # ""
         THEN con' = c1 /\ pc' = "done" /\ result' = Raised(x, <<>>)
         ELSE \E y \in Outcomes(Select("columns"), Cursor(c1)) :
                /\ con' = Query(c1, Select("columns"), y)
                /\ pc' = "done"
                /\ result' = IF y # "" THEN Raised(y, <<>>)
                             ELSE IF call.name \in DOMAIN c1.work.tables
                                  THEN Ok(<<>>)
                                  ELSE Raised("IbisError", <<>>)
    /\ UNCHANGED <<call, pre>>

(* ------------------------------------------------------------------ *)
(* create_database, drop_database                                       *)
(* ------------------------------------------------------------------ *)

CatalogArgs == {None, "c1", "c2", "cx"}

\* should_switch_catalog
ShouldSwitchCatalog(c) == c.catalog # None /\ c.catalog # c.current

\* the CREATE SCHEMA / DROP SCHEMA statement of the call
SchemaStmt(c) ==
    IF c.op = "create_database"
    THEN CreateSchemaStmt(c.name, c.force)
    ELSE DropSchemaStmt(c.name, c.force)

\* current_catalog = self.current_catalog
DatabaseCall(op) ==
    /\ pc = "idle"
    /\ pre' = con
    /\ \E x \in Outcomes(Select("db_name"), Cursor(Fresh(con))) :
         /\ con' = Query(Fresh(con), Select("db_name"), x)
         /\ \E name \in SchemaNames, catalog \in CatalogArgs, force \in BOOLEAN :
              call' = [NoCall EXCEPT !.op = op, !.name = name, !.catalog = catalog,
                                     !.force = force,
                                     !.current = IF x = "" THEN con.catalog ELSE None]
         /\ IF x = ""
            THEN pc' = "db_use" /\ result' = NoResult
            ELSE pc' = "done" /\ result' = Raised(x, <<>>)

CreateDatabase == DatabaseCall("create_database")
DropDatabase == DatabaseCall("drop_database")

\* with self.begin() as cur: if should_switch_catalog: cur.execute(USE catalog)
DbUse ==
    /\ pc = "db_use"
    /\ IF ShouldSwitchCatalog(call)
       THEN \E x \in Outcomes(UseStmt(call.catalog), Cursor(con)) :
              LET c1 == Execute(Cursor(con), UseStmt(call.catalog), x) IN
              IF x = ""
              THEN con' = c1 /\ pc' = "db_stmt" /\ result' = NoResult
              ELSE con' = BeginExit(c1, x) /\ pc' = "done" /\ result' = Raised(x, <<>>)
       ELSE con' = Cursor(con) /\ pc' = "db_stmt" /\ result' = NoResult
    /\ UNCHANGED <<call, pre>>

DbStatement ==
    /\ pc = "db_stmt"
    /\ ExecuteThen(SchemaStmt(call), "db_back")
    /\ UNCHANGED <<call, pre>>

\* if should_switch_catalog: cur.execute(USE current_catalog)
DbBack ==
    /\ pc = "db_back"
    /\ IF ShouldSwitchCatalog(call)
       THEN ExecuteThen(UseStmt(call.current), "db_commit")
       ELSE con' = con /\ pc' = "db_commit" /\ result' = NoResult
    /\ UNCHANGED <<call, pre>>

DbCommit ==
    /\ pc = "db_commit"
    /\ con' = BeginExit(con, "")
    /\ pc' = "done"
    /\ result' = Ok(<<>>)
    /\ UNCHANGED <<call, pre>>

(* ------------------------------------------------------------------ *)
(* get_schema, _get_schema_using_query                                  *)
(* ------------------------------------------------------------------ *)

Unset == -1

\* The columns the driver may report: name, reported type, nullability and the
\* numeric and datetime precisions.  Two of them share the name "a".
Col(name, typ, nullable, precision, scale, dtprec) ==
    [name |-> name, typ |-> typ, is_nullable |-> nullable,
     precision |-> precision, scale |-> scale, dtprec |-> dtprec]
Columns ==
    {Col("a", "int", "NO", 10, 0, Unset),
     Col("b", "float", "YES", 53, Unset, Unset),
     Col("c", "float", "YES", 24, Unset, Unset),
     Col("d", "decimal", "NO", 10, 2, Unset),
     Col("a", "datetime2", "YES", 27, 7, 7)}

Type(kind, nullable, precision, scale) ==
    [kind |-> kind, nullable |-> nullable, precision |-> precision, scale |-> scale]

\* self.compiler.type_mapper.from_string(typ, nullable=...)
FromString(typ, nullable) ==
    CASE typ = "int" -> Type("Int32", nullable, Unset, Unset)
      [] typ = "float" -> Type("Float64", nullable, Unset, Unset)
      [] typ = "decimal" -> Type("Decimal", nullable, Unset, Unset)
      [] typ = "datetime2" -> Type("Timestamp", nullable, Unset, Unset)
      [] OTHER -> Type("String", nullable, Unset, Unset)

\* the refinement of the mapped type by the row's precisions; tsScale is the
\* field the caller reads a timestamp's scale from
Refined(typ, nullable, precision, scale, tsScale) ==
    LET newtyp == FromString(typ, nullable) IN
    IF typ = "float"
    THEN Type(IF precision = 53 THEN "Float64" ELSE "Float32", newtyp.nullable, Unset, Unset)
    ELSE IF newtyp.kind = "Decimal"
         THEN [newtyp EXCEPT !.precision = precision, !.scale = scale]
         ELSE IF newtyp.kind = "Timestamp"
              THEN [newtyp EXCEPT !.scale = tsScale]
              ELSE newtyp

\* mapping[key] = value on an insertion-ordered dict, kept as a sequence of
\* entries: a key already there keeps its place and takes the new value
DictSet(d, key, value) ==
    IF \E i \in DOMAIN d : d[i].name = key
    THEN [i \in DOMAIN d |-> IF d[i].name = key THEN [name |-> key, type |-> value] ELSE d[i]]
    ELSE Append(d, [name |-> key, type |-> value])

RECURSIVE GetSchemaMapping(_)
GetSchemaMapping(meta) ==
    IF meta = <<>> THEN <<>>
    ELSE LET r == meta[Len(meta)] IN
         DictSet(GetSchemaMapping(SubSeq(meta, 1, Len(meta) - 1)), r.name,
                 Refined(r.typ, r.is_nullable = "YES", r.precision, r.scale, r.dtprec))

\* sorted(rows, key=itemgetter(1)): a stable sort on the column ordinal
RECURSIVE SortedByOrdinal(_)
Insert(sorted, r) ==
    LET k == Cardinality({i \in DOMAIN sorted : sorted[i].ordinal <= r.ordinal}) IN
    SubSeq(sorted, 1, k) \o <<r>> \o SubSeq(sorted, k + 1, Len(sorted))
AsReturned(rows) == rows
SortedByOrdinal(rows) ==
    IF rows = <<>> THEN <<>>
    ELSE Insert(SortedByOrdinal(SubSeq(rows, 1, Len(rows) - 1)), rows[Len(rows)])

RECURSIVE QuerySchemaMapping(_)
QuerySchemaMapping(rows) ==
    IF rows = <<>> THEN <<>>
    ELSE LET r == rows[Len(rows)].col IN
         DictSet(QuerySchemaMapping(SubSeq(rows, 1, Len(rows) - 1)), r.name,
                 Refined(r.typ, r.is_nullable = "YES", r.precision, r.scale, r.scale))

\* sg.table(name, db=database, catalog=catalog).sql(): the parts given, in order
Fqn(c) ==
    (IF c.catalog = None THEN <<>> ELSE <<c.catalog>>)
    \o (IF c.database = None THEN <<>> ELSE <<c.database>>)
    \o <<c.name>>

\* what the driver may answer to the columns query, in ordinal order
MetaAnswers == UNION {[1 .. n -> Columns] : n \in 0 .. MaxCols}

\* what sp_describe_first_result_set may answer: rows with distinct column
\* ordinals, in any order
Ordinals == 1 .. MaxCols
DescribeAnswers ==
    UNION {{rows \in [1 .. n -> [ordinal : Ordinals, col : Columns]] :
                \A i, j \in 1 .. n : i # j => rows[i].ordinal # rows[j].ordinal}
           : n \in 0 .. MaxCols}

\* get_schema builds its query: catalog or self.current_catalog
GetSchema ==
    /\ pc = "idle"
    /\ pre' = con
    /\ \E catalog \in {None, "c2"}, database \in {None, CurrentDatabase} :
         LET c == [NoCall EXCEPT !.op = "get_schema", !.name = FinalName,
                                 !.catalog = catalog, !.database = database]
         IN  IF catalog # None
             THEN /\ call' = c
                  /\ con' = Fresh(con)
                  /\ pc' = "gs_fetch"
                  /\ result' = NoResult
             ELSE \E x \in Outcomes(Select("db_name"), Cursor(Fresh(con))) :
                  /\ call' = c
                  /\ con' = Query(Fresh(con), Select("db_name"), x)
                  /\ IF x = ""
                     THEN pc' = "gs_fetch" /\ result' = NoResult
                     ELSE pc' = "done" /\ result' = Raised(x, <<>>)

\* the columns query, cur.fetchall(), and the mapping
GsFetch ==
    /\ pc = "gs_fetch"
    /\ pre' = pre
    /\ \E x \in Outcomes(Select("columns"), Cursor(con)) :
         /\ con' = Query(con, Select("columns"), x)
         /\ pc' = "done"
         /\ IF x # ""
            THEN call' = call /\ result' = Raised(x, <<>>)
            ELSE \E meta \in MetaAnswers :
                 /\ call' = [call EXCEPT !.rows = meta, !.n = 1]
                 /\ result' = IF meta = <<>>
                              THEN Raised("IbisError", <<"Table not found">> \o Fqn(call))
                              ELSE Ok(GetSchemaMapping(meta))

GetSchemaUsingQuery ==
    /\ pc = "idle"
    /\ pre' = con
    /\ \E x \in Outcomes(Select("describe"), Cursor(Fresh(con))) :
         /\ con' = Query(Fresh(con), Select("describe"), x)
         /\ pc' = "done"
         /\ IF x # ""
            THEN /\ call' = [NoCall EXCEPT !.op = "_get_schema_using_query"]
                 /\ result' = Raised(x, <<>>)
            ELSE \E rows \in DescribeAnswers :
                 /\ call' = [NoCall EXCEPT !.op = "_get_schema_using_query",
                                           !.rows = rows, !.n = 1]
                 /\ result' = Ok(QuerySchemaMapping(SortedByOrdinal(rows)))

(* ------------------------------------------------------------------ *)
(* Reading the record of driver calls                                   *)
(* ------------------------------------------------------------------ *)

Log == con.log
At(kind) == {i \in DOMAIN Log : Log[i].ev = kind}
Failures == {i \in DOMAIN Log : Log[i].err # ""}
Executed(op) == {i \in DOMAIN Log : Log[i].ev = "execute" /\ Log[i].stmt.op = op}

\* A scope is the stretch of the record from one cursor() to the next.
ScopeEnd(i) ==
    IF \E j \in At("cursor") : j > i
    THEN (CHOOSE j \in At("cursor") : j > i /\ \A k \in At("cursor") : k > i => j <= k) - 1
    ELSE Len(Log)
Scope(i) == i .. ScopeEnd(i)

\* positions at which the call stands inside an open scope
InScopePcs == {"body", "ct_insert", "ct_drop", "ct_rename", "ct_commit",
               "reg_insert", "reg_commit", "db_stmt", "db_back", "db_commit"}
ScopeOpen(i) == ScopeEnd(i) = Len(Log) /\ pc \in InScopePcs

Next ==
    \/ Begin \/ SafeRawSql \/ BodyExecute \/ BodyRaise \/ BodyEnd \/ RawSql
    \/ RegisterInMemoryTable \/ RegCheck \/ RegListCatalog \/ RegListTables
    \/ RegCreate \/ RegInsert \/ RegCommit
    \/ CreateTable \/ CtDatabase \/ CtHooks \/ CtCreate \/ CtInsert \/ CtDrop
    \/ CtRename \/ CtCommit \/ CtCleanup \/ CtTable
    \/ Return
Spec == Init /\ [][Next]_vars

NextCatalog ==
    CreateDatabase \/ DropDatabase \/ DbUse \/ DbStatement \/ DbBack \/ DbCommit \/ Return
SpecCatalog == Init /\ [][NextCatalog]_vars

NextSchema == GetSchema \/ GsFetch \/ GetSchemaUsingQuery \/ Return
SpecSchema == Init /\ [][NextSchema]_vars

\* Every scope ends in exactly one of two ways.  While it is open nothing
\* has been committed or rolled back.  Once it is over: if no statement failed
\* and the body did not raise, there is one commit, after every statement, and
\* no rollback; if a statement failed or the body raised, there is one rollback,
\* right after the failure, no commit, nothing more is executed, and the call
\* ends with the exception that was raised.
ScopeDiscipline ==
    \A i \in At("cursor") :
        LET S == Scope(i)
            C == At("commit") \cap S
            R == At("rollback") \cap S
            F == Failures \cap S
            X == At("execute") \cap S
        IN  IF ScopeOpen(i)
            THEN C = {} /\ R = {} /\ F = {}
            ELSE /\ F = {} => /\ R = {}
                              /\ Cardinality(C) = 1
                              /\ \A c \in C : \A x \in X : x < c
                 /\ F # {} => /\ C = {}
                              /\ Cardinality(F) = 1
                              /\ \A f \in F : R = {f + 1} /\ \A x \in X : x <= f
                              /\ ScopeEnd(i) = Len(Log) /\ pc = "done" =>
                                    \A f \in F : result = Raised(Log[f].err, <<>>)
ScopeCalls == {"begin", "_safe_raw_sql", "raw_sql"}

\* C1: every scope of the record keeps ScopeDiscipline, and a call of begin,
\* _safe_raw_sql or raw_sql ends either ok, with every statement succeeded and
\* its work committed (durable), or with the exception that was raised, nothing
\* committed and the connection back at the durable state from before the call.
TransactionDiscipline ==
    /\ ScopeDiscipline
    /\ (pc = "done" /\ call.op \in ScopeCalls) =>
          /\ result.status = "ok" =>
                Failures = {} /\ con.durable = con.work /\ Cardinality(At("commit")) = 1
          /\ result.status = "raised" =>
                /\ Failures # {} /\ At("commit") = {}
                /\ con.durable = pre.durable /\ con.work = pre.durable
          /\ result.status # "none"

WitnessCommitted ==
    /\ pc = "done" /\ call.op = "_safe_raw_sql" /\ result.status = "ok"
    /\ Cardinality(At("execute")) >= 2
    /\ con.durable # pre.durable
WitnessRolledBack ==
    /\ pc = "done" /\ call.op = "begin" /\ result.status = "raised"
    /\ con.work # Applied(CreateStmt(FinalName, None, FALSE), pre)
    /\ \E i \in Executed("CREATE") : Log[i].err = ""
WitnessTransactionDiscipline == WitnessRolledBack

(* ------------------------------------------------------------------ *)
(* create_table: what the claims read                                   *)
(* ------------------------------------------------------------------ *)

Ddl == {"CREATE", "INSERT", "DROP", "RENAME"}
Issued(ops) == {i \in DOMAIN Log : Log[i].ev = "execute" /\ Log[i].stmt.op \in ops}

\* the statements of the create/overwrite sequence: those on the final and the
\* staging name (the memtable's own statements name the memtable)
Main == {i \in Issued(Ddl) : Log[i].stmt.tbl \in {FinalName, StagingName}}
Nth(S, k) == CHOOSE i \in S : Cardinality({j \in S : j < i}) = k - 1
ScopeStart(i) == CHOOSE j \in At("cursor") : j <= i /\ \A k \in At("cursor") : k <= i => k <= j

NewData(obj) == IF obj = "e1" THEN {"r2"} ELSE IF obj = "m1" THEN {"r1"} ELSE {}

CreateTableDone == pc = "done" /\ call.op = "create_table"

\* C2: create_table(overwrite=True) over an existing table of the final name,
\* once it has succeeded: the final table holds exactly the new data, no row of
\* the old table remains beside it, and no table of the staging name exists.
OverwriteReplaces ==
    (/\ CreateTableDone /\ call.overwrite /\ result.status = "ok"
     /\ call.name \in DOMAIN pre.work.tables)
    => /\ call.name \in DOMAIN con.work.tables
       /\ con.work.tables[call.name] = NewData(call.obj)
       /\ (con.work.tables[call.name] \cap pre.work.tables[call.name]) \subseteq NewData(call.obj)
       /\ StagingName \notin DOMAIN con.work.tables
       /\ con.durable = con.work

WitnessOverwriteReplaces ==
    /\ CreateTableDone /\ call.overwrite /\ result.status = "ok"
    /\ call.name \in DOMAIN pre.work.tables
    /\ pre.work.tables[call.name] = {"r1"}
    /\ con.work.tables[call.name] = {"r2"}

\* C3: create_table with neither obj nor schema raises ValueError with no
\* driver call at all (no cursor, no statement), whatever the other arguments.
NeitherObjNorSchema ==
    (call.op = "create_table" /\ call.obj = None /\ call.schema = None)
    => /\ pc = "done"
       /\ result = Raised("ValueError", <<>>)
       /\ Log = <<>>
       /\ con = Fresh(pre)

WitnessNeitherObjNorSchema ==
    /\ CreateTableDone /\ call.obj = None /\ call.schema = None
    /\ call.database = "other" /\ call.overwrite /\ call.temp
    /\ result.err = "ValueError"

(* ------------------------------------------------------------------ *)
(* _register_in_memory_table twice                                      *)
(* ------------------------------------------------------------------ *)

RegisterDone == pc = "done" /\ call.op = "_register_in_memory_table"
\* the memtable's table is there when the call starts: it was registered by an
\* earlier call and not dropped since
RegisteredBefore == call.obj \in DOMAIN pre.work.tables
OnMemtable(ops) == {i \in Issued(ops) : Log[i].stmt.tbl = call.obj}

\* C5 as stated: the first registration of a dataset (one that has rows to
\* insert) issues CREATE and INSERT once each, and the second issues neither
\* and makes no driver call at all.
RegisterTwiceNoDriverCall ==
    RegisterDone =>
        IF RegisteredBefore
        THEN Issued(Ddl) = {} /\ Log = <<>>
        ELSE (result.status = "ok" /\ MemData(call.obj) # {}) =>
                /\ Cardinality(OnMemtable({"CREATE"})) = 1
                /\ Cardinality(OnMemtable({"INSERT"})) = 1

\* C5 as amended: the first registration issues CREATE once and INSERT once
\* when the dataset has rows (no INSERT when it has none); the second issues
\* neither, and all it sends to the driver are the two catalog queries of
\* list_tables(), which change nothing.
RegisterTwice ==
    /\ RegisterDone =>
          IF RegisteredBefore
          THEN /\ Issued(Ddl) = {}
               /\ \A i \in At("execute") : Log[i].stmt \in {Select("db_name"), Select("tables")}
               /\ Cardinality(At("execute")) <= 2
               /\ con.work = pre.work /\ con.durable = pre.durable
               /\ result.status = "ok" => Cardinality(At("execute")) = 2
          ELSE result.status = "ok" =>
                  /\ Cardinality(OnMemtable({"CREATE"})) = 1
                  /\ Cardinality(OnMemtable({"INSERT"})) =
                        (IF MemData(call.obj) = {} THEN 0 ELSE 1)
                  /\ call.obj \in DOMAIN con.durable.tables
    /\ (call.op = "_register_in_memory_table" /\ RegisteredBefore)
          => pc \notin {"reg_create", "reg_insert", "reg_commit"}

WitnessRegisterTwice ==
    /\ RegisterDone /\ RegisteredBefore /\ result.status = "ok"
    /\ call.obj = "m1" /\ con.work.tables["m1"] = {"r1"}

(* ------------------------------------------------------------------ *)
(* create_table into another database                                   *)
(* ------------------------------------------------------------------ *)

CrossDatabase == call.database # None /\ call.database # CurrentDatabase
LookedUp == \E i \in At("execute") : Log[i].stmt = Select("schema_name") /\ Log[i].err = ""

\* C6 as stated: a database other than the current one ends the call with
\* UnsupportedOperationError and no CREATE, INSERT, DROP or rename; otherwise
\* the call goes on and names the table without a qualifier.
CrossDatabaseRejectedAlways ==
    CreateTableDone =>
        IF CrossDatabase
        THEN result = Raised("UnsupportedOperationError", <<>>) /\ Issued(Ddl) = {}
        ELSE /\ result.err # "UnsupportedOperationError"
             /\ \A i \in Main : Log[i].stmt.qual = None

\* C6 as amended: with obj or schema given, and once the query for the current
\* database has answered, a database other than the current one ends the call
\* with UnsupportedOperationError; in no case does such a call issue a CREATE,
\* INSERT, DROP or rename.  With database None or the current one, the call is
\* never refused, every statement of the sequence names its table without a
\* qualifier, and a call that succeeds has created the table.
CrossDatabaseRejected ==
    /\ (call.op = "create_table" /\ CrossDatabase) =>
          /\ Issued(Ddl) = {}
          /\ (pc = "done" /\ ~Malformed(call) /\ LookedUp)
                => result = Raised("UnsupportedOperationError", <<>>)
          /\ pc \in {"ct_database", "done"}
    /\ (call.op = "create_table" /\ ~CrossDatabase) =>
          /\ result.err # "UnsupportedOperationError"
          /\ \A i \in Main : Log[i].stmt.qual = None
          /\ (pc = "done" /\ result.status = "ok") =>
                /\ call.name \in DOMAIN con.durable.tables
                /\ \E i \in Main : Log[i].stmt.op = "CREATE" /\ Log[i].err = ""

WitnessCrossDatabaseRejected ==
    /\ CreateTableDone /\ CrossDatabase /\ call.obj = "m1"
    /\ result.err = "UnsupportedOperationError"
WitnessSameDatabase ==
    /\ CreateTableDone /\ call.database = CurrentDatabase /\ result.status = "ok"

(* ------------------------------------------------------------------ *)
(* The order and the transaction of the create/overwrite sequence       *)
(* ------------------------------------------------------------------ *)

OverwriteSequence(c) ==
    <<CreateStmt(StagingName, None, c.temp)>>
    \o (IF c.obj # None THEN <<InsertSelect(StagingName, c.obj)>> ELSE <<>>)
    \o <<DropStmt(c.name, TRUE), RenameStmt(StagingName, c.name)>>

\* C8: under overwrite the statements issued are, in order, a prefix of
\* CREATE staging, INSERT into staging (when there is source data), DROP IF
\* EXISTS final, rename staging to final; only the last one issued can have
\* failed (so DROP is issued only after CREATE and INSERT succeeded, and
\* nothing follows a failure); a call that succeeds has issued all of them.
OverwriteOrder ==
    (call.op = "create_table" /\ call.overwrite) =>
        LET E == OverwriteSequence(call)
            n == Cardinality(Main)
        IN  /\ n <= Len(E)
            /\ \A k \in 1 .. n :
                  /\ Log[Nth(Main, k)].stmt = E[k]
                  /\ k < n => Log[Nth(Main, k)].err = ""
            /\ (pc = "done" /\ result.status = "ok") =>
                  n = Len(E) /\ Log[Nth(Main, n)].err = ""
            /\ (n > 0 /\ Log[Nth(Main, n)].err # "") => pc = "done"

WitnessOverwriteOrder ==
    /\ CreateTableDone /\ call.overwrite /\ call.obj = "e1"
    /\ Cardinality(Main) = 3
    /\ result.status = "raised"
WitnessOverwriteOrderFull ==
    /\ CreateTableDone /\ call.overwrite /\ call.obj = "m1"
    /\ Cardinality(Main) = 4 /\ result.status = "ok"

MainPcs == {"ct_insert", "ct_drop", "ct_rename", "ct_commit"}
AfterMainPcs == {"ct_cleanup", "ct_table"}

\* C9: the statements of the sequence share one cursor and one scope; that
\* scope commits once, after the last of them, when all succeeded, and rolls
\* back without a commit when one failed; while the scope is open the durable
\* state of the final table is what it was before the call, and the staging
\* table is never durable, nor is the final table ever durably missing once
\* it existed.
OneTransaction ==
    /\ StagingName \notin DOMAIN con.durable.tables
    /\ call.op = "create_table" =>
          /\ \A i, j \in Main : ScopeStart(i) = ScopeStart(j)
          /\ \A i \in Main :
                LET S == Scope(ScopeStart(i))
                    C == At("commit") \cap S
                IN  /\ Cardinality(C) <= 1
                    /\ \A c \in C : \A j \in Main : j < c /\ Log[j].err = ""
                    /\ (pc \in AfterMainPcs \/ (pc = "done" /\ result.status = "ok"))
                          => Cardinality(C) = 1
                    /\ (\E j \in Main : Log[j].err # "")
                          => C = {} /\ Cardinality(At("rollback") \cap S) = 1
                    /\ pc \in MainPcs => C = {}
          /\ pc \in MainPcs =>
                /\ (call.name \in DOMAIN con.durable.tables)
                      = (call.name \in DOMAIN pre.durable.tables)
                /\ call.name \in DOMAIN pre.durable.tables
                      => con.durable.tables[call.name] = pre.durable.tables[call.name]
          /\ call.name \in DOMAIN pre.durable.tables
                => call.name \in DOMAIN con.durable.tables

WitnessOneTransaction ==
    /\ CreateTableDone /\ call.overwrite /\ result.status = "raised"
    /\ \E i \in Main : Log[i].stmt.op = "RENAME" /\ Log[i].err # ""
    /\ call.name \in DOMAIN pre.durable.tables
WitnessOneTransactionCommitted ==
    /\ CreateTableDone /\ call.overwrite /\ result.status = "ok"
    /\ Cardinality(Main) = 4

(* ------------------------------------------------------------------ *)
(* create_database / drop_database and the current catalog              *)
(* ------------------------------------------------------------------ *)

DatabaseDone == pc = "done" /\ call.op \in {"create_database", "drop_database"}

\* C10: a create_database or drop_database call given a catalog other than
\* the connection's current one leaves the connection in the catalog it was
\* in, whether the call returned or raised.
CatalogRestored ==
    (DatabaseDone /\ call.catalog # None /\ call.catalog # pre.catalog)
        => con.catalog = pre.catalog

(* ------------------------------------------------------------------ *)
(* Schema introspection                                                 *)
(* ------------------------------------------------------------------ *)

\* the introspection got an answer from the driver (call.n = 1) and the
\* answer has no rows
NoRows(op) == pc = "done" /\ call.op = op /\ call.n = 1 /\ call.rows = <<>>

\* C4: with zero metadata rows get_schema raises the not-found error naming
\* the table as it was asked for, and _get_schema_using_query raises an error
\* of another kind instead of returning a schema.
ZeroRowsRaise ==
    /\ NoRows("get_schema") =>
          result = Raised("IbisError", <<"Table not found">> \o Fqn(call))
    /\ NoRows("_get_schema_using_query") =>
          result.status = "raised" /\ result.value = <<>>

\* The order of the keys of the schema the call returned.
Keys == [i \in DOMAIN result.value |-> result.value[i].name]
DistinctNames ==
    \A i, j \in DOMAIN call.rows : i # j => call.rows[i].col.name # call.rows[j].col.name
OrdinalOf(name) == (CHOOSE r \in {call.rows[i] : i \in DOMAIN call.rows} : r.col.name = name).ordinal

\* C7: for rows of distinct column names, returned in any order, the keys of
\* the schema are the rows' names in ascending order of their ordinals.
KeysInOrdinalOrder ==
    (pc = "done" /\ call.op = "_get_schema_using_query" /\ result.status = "ok"
     /\ DistinctNames)
    => /\ Len(Keys) = Len(call.rows)
       /\ {Keys[i] : i \in DOMAIN Keys} = {call.rows[i].col.name : i \in DOMAIN call.rows}
       /\ \A i, j \in DOMAIN Keys : i < j => OrdinalOf(Keys[i]) < OrdinalOf(Keys[j])

WitnessKeysInOrdinalOrder ==
    /\ pc = "done" /\ call.op = "_get_schema_using_query" /\ result.status = "ok"
    /\ DistinctNames
    /\ Len(call.rows) = 3
    /\ call.rows[1].ordinal = 3 /\ call.rows[2].ordinal = 1 /\ call.rows[3].ordinal = 2
    /\ Keys = <<call.rows[2].col.name, call.rows[3].col.name, call.rows[1].col.name>>

(* ------------------------------------------------------------------ *)
(* create_table from in-memory data: the registered working table       *)
(* ------------------------------------------------------------------ *)

InMemoryCreated ==
    CreateTableDone /\ result.status = "ok" /\ call.obj \in Memtables

\* C11: when create_table has succeeded on in-memory data, the table that was
\* registered under the memtable's generated name is gone, in the connection
\* and durably, whether an explicit schema was given or not.
MemtableDropped ==
    InMemoryCreated =>
        /\ call.obj \notin DOMAIN con.work.tables
        /\ call.obj \notin DOMAIN con.durable.tables

\* The same for the calls given no explicit schema.
MemtableDroppedWithoutSchema ==
    (InMemoryCreated /\ call.schema = None) =>
        /\ call.obj \notin DOMAIN con.work.tables
        /\ call.obj \notin DOMAIN con.durable.tables
        /\ \E i \in Issued({"DROP"}) : Log[i].stmt.tbl = call.obj /\ Log[i].err = ""

====
